---- MODULE Spec2Model ----
(***************************************************************************)
(* zk-gashealth-soundness (gaszkapp.py): a one-shot command line tool that *)
(* reads the latest block number of a JSON-RPC node, fetches the last      *)
(* `count` blocks one after the other, reduces their gas utilization to    *)
(* mean / min / max, applies the fixed soundness rule and exits with a     *)
(* status code.                                                            *)
(*                                                                         *)
(* Numbers.  The program works on Python floats rounded to two decimals.   *)
(* Here a utilization is an integer number of hundredths of a percent      *)
(* (50.01 % is 5001), and round(x, 2) is rounding of the exact quotient to *)
(* the nearest hundredth.  When the exact quotient lies halfway between    *)
(* two hundredths, the float the program rounds lies a little to one side  *)
(* or the other of it (34.995 rounds to 34.99, 3.125 to 3.12, 0.375 to     *)
(* 0.38), so round(x, 2) is then either neighbour.                         *)
(*                                                                         *)
(* An optional value (an unbound local, a process that has not exited) is  *)
(* a sequence of length 0 or 1.                                            *)
(*                                                                         *)
(* Fields of a block that no aggregate of the utilization depends on       *)
(* (timestamp, tx_count, base_fee_gwei, elapsed_seconds) are left out.     *)
(***************************************************************************)
EXTENDS Integers, Sequences, FiniteSets, TLC

VARIABLES
    pc,         \* position of the process in main() / analyze_chain_health()
    args,       \* the Namespace returned by parse_args(), once it returned
    head,       \* the node's current chain head (w3.eth.block_number)
    latest,     \* local `latest` of analyze_chain_health
    reads,      \* number of reads of w3.eth.block_number
    connects,   \* number of calls of w3.is_connected()
    connected,  \* what w3.is_connected() returned
    fetched,    \* block ids passed to w3.eth.get_block, in call order
    blocks,     \* local list `blocks` of analyze_chain_health
    err,        \* the exception propagating out of analyze_chain_health
    result,     \* the report returned by analyze_chain_health
    out,        \* what was printed, one tag per print call
    bar,        \* the utilization bar printed: number of filled / empty cells
    exitCode,   \* the status the process exited with
    raw,        \* a raw block handed to the metrics extractor on its own
    metrics     \* the metrics extracted from `raw`

vars == <<pc, args, head, latest, reads, connects, connected, fetched,
          blocks, err, result, out, bar, exitCode, raw, metrics>>

----------------------------------------------------------------------------
(* Bounds *)

MaxCount == 3       \* largest --count
MaxBelowZero == 1   \* how far below zero --count goes
MaxHead == 2        \* largest chain head
MaxGas == 32        \* largest gas_used / gas_limit of the extractor alone

(* Program constants *)

Scale == 100            \* hundredths: round(..., 2)
AvgThreshold == 50      \* avg_util > 50
RangeThreshold == 40    \* (max_util - min_util) < 40
BarSegments == 20       \* "-" * (20 - filled_blocks)
BarStep == 5            \* int(avg_util / 5)

Urls == {"http://node", "https://node", "ftp://node", "http:/node"}

(* gas_used / gas_limit pairs the node serves in a full run.               *)
RawGas ==
    { <<0, 0>>, <<3000, 10000>>, <<4000, 10000>>, <<5001, 10000>>,
      <<5004, 10000>>, <<6000, 10000>>, <<6999, 10000>>, <<7000, 10000>>,
      <<21000, 10000>> }

----------------------------------------------------------------------------
(* Pure helpers *)

None == <<>>
Some(v) == <<v>>

StartsWith(s, p) == Len(s) >= Len(p) /\ SubSeq(s, 1, Len(p)) = p

(* the scheme check with the slashes forgotten *)
ValidUrlNoSlashes(rpc) == StartsWith(rpc, "http:") \/ StartsWith(rpc, "https:")

ValidUrl(rpc) == StartsWith(rpc, "http://") \/ StartsWith(rpc, "https://")

(* round(num / den, 2), in hundredths: the values it can give             *)
(* (den > 0, num >= 0)                                                     *)
Round2(num, den) ==
    LET q == (Scale * num) \div den
        r == (Scale * num) % den
    IN  IF 2 * r > den THEN {q + 1}
        ELSE IF 2 * r < den THEN {q}
        ELSE {q, q + 1}

RECURSIVE Sum(_)
Sum(s) == IF s = <<>> THEN 0 ELSE Head(s) + Sum(Tail(s))

RECURSIVE MaxOf(_)
MaxOf(s) ==
    IF Len(s) = 1 THEN s[1]
    ELSE LET m == MaxOf(Tail(s)) IN IF s[1] >= m THEN s[1] ELSE m

RECURSIVE MinOf(_)
MinOf(s) ==
    IF Len(s) = 1 THEN s[1]
    ELSE LET m == MinOf(Tail(s)) IN IF s[1] <= m THEN s[1] ELSE m

(* str * n: a negative repeat count gives the empty string *)
Repeat(n) == IF n > 0 THEN n ELSE 0

----------------------------------------------------------------------------
(* fetch_block_metrics, after w3.eth.get_block returned `block` *)

(* the quotient cut off after two decimals instead of rounded *)
UtilizationTruncated(gas_used, gas_limit) ==
    IF gas_limit # 0 THEN {(Scale * gas_used * 100) \div gas_limit} ELSE {0}

Utilization(gas_used, gas_limit) ==
    IF gas_limit # 0 THEN Round2(gas_used * 100, gas_limit) ELSE {0}

fetch_block_metrics(block) ==
    { [ number              |-> block.number,
        gas_used            |-> block.gasUsed,
        gas_limit           |-> block.gasLimit,
        utilization_percent |-> utilization ] :
      utilization \in Utilization(block.gasUsed, block.gasLimit) }

(* the blocks a node may answer get_block(num) with; a node may also serve *)
(* a block that carries another number than the one asked for              *)
NodeBlocks(num) ==
    { [number |-> num, gasUsed |-> g[1], gasLimit |-> g[2]] : g \in RawGas }
    \cup { [number |-> num + 1, gasUsed |-> 5000, gasLimit |-> 10000] }

----------------------------------------------------------------------------
(* analyze_chain_health, after the loop *)

Utilizations(bs) == [k \in 1..Len(bs) |-> bs[k].utilization_percent]

(* the mean cut off after two decimals instead of rounded *)
AvgUtilTruncated(us) == {(Scale * Sum(us)) \div (Scale * Len(us))}

AvgUtil(us) == Round2(Sum(us), Scale * Len(us))

(* the soundness rule with both comparisons non-strict *)
SoundNonStrict(avg_util, max_util, min_util) ==
    avg_util >= AvgThreshold * Scale
    /\ (max_util - min_util) <= RangeThreshold * Scale

Sound(avg_util, max_util, min_util) ==
    avg_util > AvgThreshold * Scale
    /\ (max_util - min_util) < RangeThreshold * Scale

Report(block_count, bs) ==
    LET us == Utilizations(bs)
        max_util == MaxOf(us)
        min_util == MinOf(us)
    IN  { [ block_count                 |-> block_count,
            average_utilization_percent |-> avg_util,
            max_utilization_percent     |-> max_util,
            min_utilization_percent     |-> min_util,
            soundness_ok                |-> Sound(avg_util, max_util, min_util),
            analyzed_blocks             |-> bs ] :
          avg_util \in AvgUtil(us) }

(* range(latest - block_count + 1, latest + 1) *)
RangeLen(block_count) == IF block_count > 0 THEN block_count ELSE 0
(* range(latest - block_count, latest): the window one block too early *)
RangeAtShifted(lat, block_count, i) == lat - block_count + i - 1
(* the window taken from the chain head at the time of each fetch *)
RangeAtHead(lat, block_count, i) == head - block_count + i
RangeAt(lat, block_count, i) == lat - block_count + i

----------------------------------------------------------------------------
(* main: the utilization bar *)

FilledBlocks(avg_util) == avg_util \div (BarStep * Scale)

(* an unstable verdict reported with the status of a configuration error *)
ExitStatusOne(sound) == IF sound THEN 0 ELSE 1

(* main: sys.exit(0 if result["soundness_ok"] else 2) *)
ExitStatus(sound) == IF sound THEN 0 ELSE 2

Bar(avg_util) ==
    [ filled |-> Repeat(FilledBlocks(avg_util)),
      empty  |-> Repeat(BarSegments - FilledBlocks(avg_util)) ]

----------------------------------------------------------------------------
Init ==
    /\ pc = "start"
    /\ args = None
    /\ head \in 0..MaxHead
    /\ latest = None
    /\ reads = 0
    /\ connects = 0
    /\ connected = None
    /\ fetched = <<>>
    /\ blocks = <<>>
    /\ err = None
    /\ result = None
    /\ out = <<>>
    /\ bar = None
    /\ exitCode = None
    /\ raw = None
    /\ metrics = None

Exit(code, lines) ==
    /\ out' = out \o lines
    /\ exitCode' = Some(code)
    /\ pc' = "exited"

(* parse_args: argparse prints the help and exits 0 on -h / --help *)
ParseArgsHelp ==
    /\ pc = "start"
    /\ Exit(0, <<"help">>)
    /\ UNCHANGED <<args, head, latest, reads, connects, connected, fetched,
                   blocks, err, result, bar, raw, metrics>>

(* parse_args: argparse prints the usage and exits 2 on an argument it     *)
(* cannot parse (--count with type=int given a non-integer, an unknown     *)
(* option)                                                                 *)
ParseArgsError ==
    /\ pc = "start"
    /\ Exit(2, <<"usage">>)
    /\ UNCHANGED <<args, head, latest, reads, connects, connected, fetched,
                   blocks, err, result, bar, raw, metrics>>

(* parse_args returns a Namespace; --count is any integer *)
ParseArgsOk ==
    /\ pc = "start"
    /\ \E rpc \in Urls, count \in (0 - MaxBelowZero)..MaxCount,
          json \in BOOLEAN :
          args' = Some([rpc |-> rpc, count |-> count, json |-> json])
    /\ pc' = "check_url"
    /\ UNCHANGED <<head, latest, reads, connects, connected, fetched, blocks,
                   err, result, out, bar, exitCode, raw, metrics>>

(* main, the scheme check *)
CheckUrl ==
    /\ pc = "check_url"
    /\ IF ~ValidUrl(args[1].rpc)
         THEN Exit(1, <<"invalid_url">>)
         ELSE pc' = "connect" /\ UNCHANGED <<out, exitCode>>
    /\ UNCHANGED <<args, head, latest, reads, connects, connected, fetched,
                   blocks, err, result, bar, raw, metrics>>

(* main, Web3(...) and w3.is_connected() *)
Connect ==
    /\ pc = "connect"
    /\ connects' = connects + 1
    /\ \E ok \in BOOLEAN :
          /\ connected' = Some(ok)
          /\ IF ~ok
               THEN Exit(1, <<"connect_failed">>)
               ELSE /\ out' = out \o <<"banner">>
                    /\ pc' = "analyze"
                    /\ UNCHANGED exitCode
    /\ UNCHANGED <<args, head, latest, reads, fetched, blocks, err, result,
                   bar, raw, metrics>>

(* analyze_chain_health: latest = w3.eth.block_number; blocks = [] *)
ReadLatest ==
    /\ pc = "analyze"
    /\ reads' = reads + 1
    /\ latest' = Some(head)
    /\ blocks' = <<>>
    /\ out' = out \o <<"fetching">>
    /\ pc' = "loop"
    /\ UNCHANGED <<args, head, connects, connected, fetched, err, result, bar,
                   exitCode, raw, metrics>>

(* analyze_chain_health: the read of w3.eth.block_number raises *)
ReadLatestFails ==
    /\ pc = "analyze"
    /\ reads' = reads + 1
    /\ err' = Some("RpcError")
    /\ pc' = "except"
    /\ UNCHANGED <<args, head, latest, connects, connected, fetched, blocks,
                   result, out, bar, exitCode, raw, metrics>>

(* one iteration of the loop: get_block returns and the metrics are kept *)
FetchBlock ==
    /\ pc = "loop"
    /\ Len(blocks) < RangeLen(args[1].count)
    /\ LET num == RangeAt(latest[1], args[1].count, Len(blocks) + 1)
       IN  /\ fetched' = Append(fetched, num)
           /\ \E block \in NodeBlocks(num) :
                 \E metric \in fetch_block_metrics(block) :
                    blocks' = Append(blocks, metric)
    /\ out' = out \o <<"analyzing">>
    /\ UNCHANGED <<pc, args, head, latest, reads, connects, connected, err,
                   result, bar, exitCode, raw, metrics>>

(* get_block raises, the exception is swallowed and the block asked again *)
FetchBlockFailsRetry ==
    /\ pc = "loop"
    /\ Len(fetched) <= MaxCount
    /\ Len(blocks) < RangeLen(args[1].count)
    /\ fetched' = Append(fetched,
                         RangeAt(latest[1], args[1].count, Len(blocks) + 1))
    /\ out' = out \o <<"analyzing">>
    /\ err' = Some("RpcError")
    /\ UNCHANGED <<pc, args, head, latest, reads, connects, connected,
                   blocks, result, bar, exitCode, raw, metrics>>

(* one iteration of the loop: get_block raises *)
FetchBlockFails ==
    /\ pc = "loop"
    /\ Len(blocks) < RangeLen(args[1].count)
    /\ fetched' = Append(fetched,
                         RangeAt(latest[1], args[1].count, Len(blocks) + 1))
    /\ out' = out \o <<"analyzing">>
    /\ err' = Some("RpcError")
    /\ pc' = "except"
    /\ UNCHANGED <<args, head, latest, reads, connects, connected, blocks,
                   result, bar, exitCode, raw, metrics>>

(* one iteration of the loop: get_block returns a record that lacks a      *)
(* field fetch_block_metrics reads                                         *)
ExtractFails ==
    /\ pc = "loop"
    /\ Len(blocks) < RangeLen(args[1].count)
    /\ fetched' = Append(fetched,
                         RangeAt(latest[1], args[1].count, Len(blocks) + 1))
    /\ out' = out \o <<"analyzing">>
    /\ err' = Some("MalformedBlock")
    /\ pc' = "except"
    /\ UNCHANGED <<args, head, latest, reads, connects, connected, blocks,
                   result, bar, exitCode, raw, metrics>>

(* analyze_chain_health after the loop: the aggregates and the return;     *)
(* an empty list makes sum(...) / len(...) raise ZeroDivisionError         *)
Reduce ==
    /\ pc = "loop"
    /\ Len(blocks) = RangeLen(args[1].count)
    /\ IF Len(blocks) = 0
         THEN /\ err' = Some("ZeroDivisionError")
              /\ pc' = "except"
              /\ UNCHANGED result
         ELSE /\ \E report \in Report(args[1].count, blocks) :
                    result' = Some(report)
              /\ pc' = "report"
              /\ UNCHANGED err
    /\ UNCHANGED <<args, head, latest, reads, connects, connected, fetched,
                   blocks, out, bar, exitCode, raw, metrics>>

(* main: except Exception *)
Except ==
    /\ pc = "except"
    /\ Exit(2, <<"error">>)
    /\ UNCHANGED <<args, head, latest, reads, connects, connected, fetched,
                   blocks, err, result, bar, raw, metrics>>

(* main: the summary, the bar, the JSON dump if asked for, and the exit *)
PrintReport ==
    /\ pc = "report"
    /\ bar' = Some(Bar(result[1].average_utilization_percent))
    /\ Exit(ExitStatus(result[1].soundness_ok),
            <<"summary", "bar">>
            \o (IF args[1].json THEN <<"json">> ELSE <<>>))
    /\ UNCHANGED <<args, head, latest, reads, connects, connected, fetched,
                   blocks, err, result, raw, metrics>>

(* the chain grows while the tool runs *)
HeadAdvance ==
    /\ pc \notin {"exited", "extract", "extracted"}
    /\ head < MaxHead
    /\ head' = head + 1
    /\ UNCHANGED <<pc, args, latest, reads, connects, connected, fetched,
                   blocks, err, result, out, bar, exitCode, raw, metrics>>

Next ==
    \/ ParseArgsHelp
    \/ ParseArgsError
    \/ ParseArgsOk
    \/ CheckUrl
    \/ Connect
    \/ ReadLatest
    \/ ReadLatestFails
    \/ FetchBlock
    \/ FetchBlockFails
    \/ ExtractFails
    \/ Reduce
    \/ Except
    \/ PrintReport
    \/ HeadAdvance

Spec == Init /\ [][Next]_vars

----------------------------------------------------------------------------
(* The metrics extractor on its own, over every gas pair up to MaxGas *)

InitMetrics ==
    /\ pc = "extract"
    /\ args = None
    /\ head = 0
    /\ latest = None
    /\ reads = 0
    /\ connects = 0
    /\ connected = None
    /\ fetched = <<>>
    /\ blocks = <<>>
    /\ err = None
    /\ result = None
    /\ out = <<>>
    /\ bar = None
    /\ exitCode = None
    /\ \E gu \in 0..MaxGas, gl \in 0..MaxGas :
          raw = Some([number |-> 0, gasUsed |-> gu, gasLimit |-> gl])
    /\ metrics = None

ExtractMetrics ==
    /\ pc = "extract"
    /\ \E metric \in fetch_block_metrics(raw[1]) : metrics' = Some(metric)
    /\ pc' = "extracted"
    /\ UNCHANGED <<args, head, latest, reads, connects, connected, fetched,
                   blocks, err, result, out, bar, exitCode, raw>>

NextMetrics == ExtractMetrics

SpecMetrics == InitMetrics /\ [][NextMetrics]_vars

----------------------------------------------------------------------------
(* Properties.  They are stated on the printed / returned values with the  *)
(* numbers of the specification written out, not through the operators     *)
(* above.                                                                  *)

Abs(x) == IF x < 0 THEN 0 - x ELSE x

HttpScheme(url) ==
    \/ (Len(url) >= 7 /\ SubSeq(url, 1, 7) = "http://")
    \/ (Len(url) >= 8 /\ SubSeq(url, 1, 8) = "https://")

Printed(tag) == \E j \in 1..Len(out) : out[j] = tag

Completed == result # None

ExitCodeRule ==
    /\ exitCode[1] \in {0, 1, 2}
    /\ exitCode[1] = 0 <=> (Completed /\ result[1].soundness_ok)
    /\ exitCode[1] = 1 <=> \/ (args # None /\ ~HttpScheme(args[1].rpc))
                           \/ connected = Some(FALSE)
    /\ exitCode[1] = 2 <=> \/ (Completed /\ ~result[1].soundness_ok)
                           \/ err # None

(* C1, as claimed: every run of main() exits with 0, 1 or 2; 0 exactly     *)
(* when the analysis completed with soundness_ok true, 1 exactly when the  *)
(* URL failed the scheme check or the connectivity check failed, 2 exactly *)
(* when the analysis completed with soundness_ok false or raised.          *)
C1_ExitCodeEveryRun == pc = "exited" => ExitCodeRule

(* C1, amended: the same for every run of main() in which parse_args()     *)
(* returns; argparse itself ends the process with 0 (--help) or 2 (usage   *)
(* error) before main() checks anything.                                   *)
C1_ExitCodeAfterParse == (pc = "exited" /\ args # None) => ExitCodeRule

C1_Witness ==
    /\ pc = "exited"
    /\ args # None
    /\ Completed
    /\ Len(result[1].analyzed_blocks) = 3
    /\ result[1].soundness_ok
    /\ exitCode = Some(0)

(* the k-th fetch or extraction failed: an exception left the loop after   *)
(* get_block was called                                                    *)
FetchFailure == err # None /\ fetched # <<>>

(* C2: when the fetch or the metric extraction of the k-th block fails, no *)
(* report is returned, the k-th is the last block asked for and was asked  *)
(* for once, neither the summary nor the JSON dump is printed, and the     *)
(* process prints the failure line and exits with 2.                       *)
C2_FetchFailureAborts ==
    FetchFailure =>
        /\ pc \in {"except", "exited"}
        /\ result = None
        /\ Len(fetched) = Len(blocks) + 1
        /\ \A j \in 1..(Len(fetched) - 1) : fetched[j] # fetched[Len(fetched)]
        /\ ~Printed("summary") /\ ~Printed("bar") /\ ~Printed("json")
        /\ pc = "exited" => (exitCode = Some(2) /\ out[Len(out)] = "error")

C2_Witness ==
    /\ pc = "exited"
    /\ FetchFailure
    /\ args[1].count = 3
    /\ args[1].json
    /\ Len(fetched) = 2

(* C3: when the RPC URL starts with neither http:// nor https://, main()   *)
(* exits with 1 and no is_connected, block_number or get_block call has    *)
(* been made.                                                              *)
C3_InvalidUrlNoNetwork ==
    (args # None /\ ~HttpScheme(args[1].rpc)) =>
        /\ connects = 0
        /\ reads = 0
        /\ fetched = <<>>
        /\ pc \in {"check_url", "exited"}
        /\ pc = "exited" => exitCode = Some(1)

C3_Witness ==
    /\ pc = "exited"
    /\ args # None
    /\ args[1].rpc = "ftp://node"
    /\ exitCode = Some(1)

(* C4, as claimed: with a block count <= 0 analyze_chain_health is never   *)
(* entered: no block_number read and no get_block call is made.            *)
C4_NonPositiveCountRejected ==
    (args # None /\ args[1].count <= 0) =>
        /\ reads = 0
        /\ fetched = <<>>
        /\ pc \notin {"loop", "except"}

AnalyzedNumbers ==
    [k \in 1..Len(result[1].analyzed_blocks) |->
        result[1].analyzed_blocks[k].number]

NodeHonest ==
    /\ Len(fetched) = Len(result[1].analyzed_blocks)
    /\ \A k \in 1..Len(fetched) : AnalyzedNumbers[k] = fetched[k]

(* C5: when every fetch succeeds and every block carries the number it was *)
(* asked for, analyzed_blocks has exactly block_count entries, numbered    *)
(* latest - block_count + 1 .. latest in ascending order, step 1.          *)
C5_AnalyzedRange ==
    (Completed /\ NodeHonest) =>
        LET n == args[1].count
            nums == AnalyzedNumbers
        IN  /\ n >= 1
            /\ Len(nums) = n
            /\ nums[1] = latest[1] - n + 1
            /\ nums[n] = latest[1]
            /\ \A k \in 1..(n - 1) : nums[k + 1] = nums[k] + 1

C5_Witness ==
    /\ Completed
    /\ NodeHonest
    /\ args[1].count = 3
    /\ latest = Some(2)
    /\ AnalyzedNumbers = <<0, 1, 2>>

(* C6: soundness_ok is true exactly when the average is above 50 and the   *)
(* spread max - min is below 40, both strictly.                            *)
C6_SoundnessRule ==
    Completed =>
        LET r == result[1]
        IN  r.soundness_ok <=>
               /\ r.average_utilization_percent > 5000
               /\ r.max_utilization_percent - r.min_utilization_percent < 4000

C6_Witness ==
    /\ Completed
    /\ result[1].average_utilization_percent = 5001
    /\ result[1].max_utilization_percent
         - result[1].min_utilization_percent = 3999
    /\ result[1].soundness_ok

ReportedUtilizations ==
    [k \in 1..Len(result[1].analyzed_blocks) |->
        result[1].analyzed_blocks[k].utilization_percent]

(* C7: the average is the arithmetic mean of the blocks' utilizations to   *)
(* the nearest hundredth, the maximum and the minimum are the largest and  *)
(* the smallest of them.                                                   *)
C7_Aggregates ==
    Completed =>
        LET r == result[1]
            us == ReportedUtilizations
            n == Len(us)
        IN  /\ n >= 1
            /\ 2 * Abs(n * r.average_utilization_percent - Sum(us)) <= n
            /\ \E k \in 1..n : us[k] = r.max_utilization_percent
            /\ \A k \in 1..n : us[k] <= r.max_utilization_percent
            /\ \E k \in 1..n : us[k] = r.min_utilization_percent
            /\ \A k \in 1..n : us[k] >= r.min_utilization_percent

C7_Witness ==
    /\ Completed
    /\ ReportedUtilizations = <<4000, 6000>>
    /\ result[1].average_utilization_percent = 5000
    /\ result[1].max_utilization_percent = 6000
    /\ result[1].min_utilization_percent = 4000

NearestHundredth(m) ==
    /\ m.gas_limit = 0 => m.utilization_percent = 0
    /\ m.gas_limit # 0 =>
          2 * Abs(m.utilization_percent * m.gas_limit - m.gas_used * 10000)
             <= m.gas_limit

(* C8, as claimed: for all non-negative gas_used and gas_limit the         *)
(* utilization lies in 0..100, is 0 when gas_limit is 0, and is otherwise  *)
(* gas_used / gas_limit * 100 to the nearest hundredth.                    *)
C8_UtilizationInRange ==
    metrics # None =>
        /\ metrics[1].utilization_percent \in 0..10000
        /\ NearestHundredth(metrics[1])

(* C8, amended: the utilization is 0 when gas_limit is 0 and otherwise     *)
(* gas_used / gas_limit * 100 to the nearest hundredth; it is never        *)
(* negative, and it is at most 100 when gas_used <= gas_limit.             *)
C8_UtilizationRounded ==
    metrics # None =>
        /\ metrics[1].utilization_percent >= 0
        /\ metrics[1].gas_used <= metrics[1].gas_limit
              => metrics[1].utilization_percent <= 10000
        /\ NearestHundredth(metrics[1])

C8_Witness ==
    /\ metrics # None
    /\ metrics[1].gas_used = 15
    /\ metrics[1].gas_limit = 30
    /\ metrics[1].utilization_percent = 5000

(* C9, as claimed: the bar printed for a report has exactly 20 cells, of   *)
(* which floor(average / 5) are filled and the rest empty.                 *)
C9_BarTwentySegments ==
    bar # None =>
        /\ bar[1].filled = result[1].average_utilization_percent \div 500
        /\ bar[1].empty = 20 - bar[1].filled
        /\ bar[1].filled + bar[1].empty = 20

C10_State ==
    /\ reads <= 1
    /\ fetched # <<>> => (reads = 1 /\ latest # None)
    /\ \A k \in 1..Len(fetched) :
          /\ fetched[k] >= latest[1] - args[1].count + 1
          /\ fetched[k] <= latest[1]
          /\ \A j \in 1..(k - 1) : fetched[j] # fetched[k]
    /\ Completed =>
          /\ reads = 1
          /\ {fetched[k] : k \in 1..Len(fetched)}
                = (latest[1] - args[1].count + 1)..latest[1]

(* C10: within one run the latest block number is read once, before the    *)
(* first fetch; every number passed to get_block lies in                   *)
(* latest - block_count + 1 .. latest for that one value and is asked for  *)
(* once; the value read, and with it the set of analyzed numbers, stays    *)
(* the same when the chain head advances during the run.                   *)
C10_SingleSnapshot ==
    /\ []C10_State
    /\ [][latest # None => (latest' = latest /\ reads' = reads)]_vars

C10_Witness ==
    /\ Completed
    /\ fetched = <<0, 1>>
    /\ latest = Some(1)
    /\ head = 2

====
